---- MODULE Spec2Model ----
(***************************************************************************)
(* Model of the crate `itr` (src/src/lib.rs): the range splitter           *)
(* rngs / RngItr and the width-cycling random generator                    *)
(* rnds_eql_byt / RndEqlBytItr.                                            *)
(*                                                                         *)
(* A behaviour starts before any call, creates one of the two iterators    *)
(* and then calls next() on it repeatedly.                                 *)
(*                                                                         *)
(* The splitter's usize is modelled with UsizeBits bits instead of 64 (its *)
(* arithmetic is add, div, rem, min and a comparison with usize::MAX,      *)
(* none of which depends on the word size).  The generator's values are    *)
(* kept as little-endian byte tuples of the real 64-bit usize.             *)
(***************************************************************************)
EXTENDS Integers, Sequences, FiniteSets

\* Bits of the splitter's (scaled) usize.
UsizeBits == 4
\* None results recorded after exhaustion.
MaxNone == 2
\* Draws taken from one generator.
MaxDraws == 16
\* The largest size in bytes of a downstream type T.
MaxSize == 3

USIZE_MAX == 2^UsizeBits - 1
Usize == 0..USIZE_MAX
MaxCalls == USIZE_MAX + MaxNone + 1

Builds == {"debug", "release"}

Min(a, b) == IF a <= b THEN a ELSE b
Max(a, b) == IF a >= b THEN a ELSE b

None == [tag |-> "None", start |-> 0, end |-> 0]
Some(s, e) == [tag |-> "Some", start |-> s, end |-> e]

NoItr == [idx |-> 0, stp |-> 0, lim |-> 0, stp_adj |-> 0]

\* rngs with the remainder dropped.
rngs_NoRemainder(seg, lim) ==
    IF seg = 0
    THEN [panic |-> TRUE, itr |-> NoItr]
    ELSE [panic |-> FALSE,
          itr |-> [idx |-> 0, stp |-> lim \div seg, lim |-> lim, stp_adj |-> 0]]

\* rngs with a division that saturates to 0 on a zero divisor.
rngs_SaturateZero(seg, lim) ==
    IF seg = 0
    THEN [panic |-> FALSE,
          itr |-> [idx |-> 0, stp |-> 0, lim |-> lim, stp_adj |-> 0]]
    ELSE [panic |-> FALSE,
          itr |-> [idx |-> 0,
                   stp |-> lim \div seg,
                   lim |-> lim,
                   stp_adj |-> lim % seg]]

(***************************************************************************)
(* rngs(seg, lim): usize::saturating_div and % both panic on a zero        *)
(* divisor, so seg = 0 panics before the struct is built.                  *)
(***************************************************************************)
rngs(seg, lim) ==
    IF seg = 0
    THEN [panic |-> TRUE, itr |-> NoItr]
    ELSE [panic |-> FALSE,
          itr |-> [idx |-> 0,
                   stp |-> lim \div seg,
                   lim |-> lim,
                   stp_adj |-> lim % seg]]

(***************************************************************************)
(* usize addition: with overflow checks (debug) an overflow panics,        *)
(* without them (release) it wraps.                                        *)
(***************************************************************************)
UAdd(a, b, build) ==
    IF a + b <= USIZE_MAX
    THEN [panic |-> FALSE, val |-> a + b]
    ELSE [panic |-> build = "debug", val |-> (a + b) % (USIZE_MAX + 1)]

(***************************************************************************)
(* Variants of RngItr::next, each with one slip:                           *)
(*   "advance"   idx advances by stp, without adj                          *)
(*   "decrement" stp_adj is not decremented                                *)
(*   "empty"     an iterator with idx = lim returns None                   *)
(*   "sentinel"  idx is set to the end reached instead of usize::MAX       *)
(*   "restart"   a call that returns None rewinds idx to 0                 *)
(***************************************************************************)
RngItr_next_slip(self, build, slip) ==
    IF self.idx = USIZE_MAX \/ (slip = "empty" /\ self.idx >= self.lim)
    THEN [panic |-> FALSE,
          self |-> IF slip = "restart" THEN [self EXCEPT !.idx = 0] ELSE self,
          ret |-> None]
    ELSE LET adj == IF self.stp_adj > 0 THEN 1 ELSE 0
             adjd == IF self.stp_adj > 0 /\ slip # "decrement"
                     THEN [self EXCEPT !.stp_adj = @ - 1]
                     ELSE self
             s1 == UAdd(self.idx, self.stp, build)
             s2 == UAdd(s1.val, adj, build)
             l == Min(s2.val, self.lim)
             t1 == UAdd(self.stp, IF slip = "advance" THEN 0 ELSE adj, build)
             t2 == UAdd(self.idx, t1.val, build)
         IN  IF s1.panic \/ s2.panic
             THEN [panic |-> TRUE, self |-> adjd, ret |-> None]
             ELSE IF l = self.lim
             THEN [panic |-> FALSE,
                   self |-> [adjd EXCEPT !.idx =
                                IF slip = "sentinel" THEN l ELSE USIZE_MAX],
                   ret |-> Some(self.idx, l)]
             ELSE IF t1.panic \/ t2.panic
             THEN [panic |-> TRUE, self |-> adjd, ret |-> None]
             ELSE [panic |-> FALSE,
                   self |-> [adjd EXCEPT !.idx = t2.val],
                   ret |-> Some(self.idx, l)]

RngItr_next_AdvanceNoAdj(self, build) == RngItr_next_slip(self, build, "advance")
RngItr_next_NoDecrement(self, build) == RngItr_next_slip(self, build, "decrement")
RngItr_next_EmptyIsNone(self, build) == RngItr_next_slip(self, build, "empty")
RngItr_next_NoSentinel(self, build) == RngItr_next_slip(self, build, "sentinel")
RngItr_next_Restart(self, build) == RngItr_next_slip(self, build, "restart")

(***************************************************************************)
(* RngItr::next.  Returns the new iterator, the returned Option and        *)
(* whether the call panicked.                                              *)
(***************************************************************************)
RngItr_next(self, build) ==
    IF self.idx = USIZE_MAX
    THEN [panic |-> FALSE, self |-> self, ret |-> None]
    ELSE LET adj == IF self.stp_adj > 0 THEN 1 ELSE 0
             adjd == IF self.stp_adj > 0
                     THEN [self EXCEPT !.stp_adj = @ - 1]
                     ELSE self
             s1 == UAdd(self.idx, self.stp, build)
             s2 == UAdd(s1.val, adj, build)
             l == Min(s2.val, self.lim)
             t1 == UAdd(self.stp, adj, build)
             t2 == UAdd(self.idx, t1.val, build)
         IN  IF s1.panic \/ s2.panic
             THEN [panic |-> TRUE, self |-> adjd, ret |-> None]
             ELSE IF l = self.lim
             THEN [panic |-> FALSE,
                   self |-> [adjd EXCEPT !.idx = USIZE_MAX],
                   ret |-> Some(self.idx, l)]
             ELSE IF t1.panic \/ t2.panic
             THEN [panic |-> TRUE, self |-> adjd, ret |-> None]
             ELSE [panic |-> FALSE,
                   self |-> [adjd EXCEPT !.idx = t2.val],
                   ret |-> Some(self.idx, l)]

(***************************************************************************)
(* The generator.  A usize or u128 value is the tuple of its little-endian *)
(* bytes: byte position p is element p + 1.                                *)
(***************************************************************************)
\* Bits of a byte: the 8 of `byt * 8`.
ByteBits == 8
\* Bytes of a usize (64-bit target).
UsizeBytes == 8
\* Bytes of a u128.
U128Bytes == 16
ByteMax == 2^ByteBits - 1

(***************************************************************************)
(* The types T with T: AsPrimitive<T> and usize: AsPrimitive<T>.  The      *)
(* bounds are open: besides the primitive integers and floats (usize and   *)
(* isize are the 8-byte integers of the 64-bit target) a downstream crate  *)
(* can implement both traits for a type of its own, of any size, zero      *)
(* included.  A type is its size and the kind of its conversion.           *)
(***************************************************************************)
IntSizes == {1, 2, 4, 8, 16}
FloatSizes == {4, 8}
Unsigned == {[cast |-> "unsigned", size |-> s] : s \in IntSizes}
Signed == {[cast |-> "signed", size |-> s] : s \in IntSizes}
Floats == {[cast |-> "float", size |-> s] : s \in FloatSizes}
Downstream == {[cast |-> "downstream", size |-> s] : s \in 0..MaxSize}
\* The primitive types, whose conversion from usize is the `as` cast.
Primitive == Unsigned \cup Signed \cup Floats
Types == Primitive \cup Downstream
\* No type: no generator exists.
NoType == [cast |-> "none", size |-> 0]

\* mem::size_of::<T>()
SizeOf(t) == t.size

\* The n-byte value 2^s (s < 8 * n).
Pow2Bytes(s, n) ==
    [i \in 1..n |-> IF i - 1 = s \div ByteBits THEN 2^(s % ByteBits) ELSE 0]

\* The n-byte value 2^s - 1 (s < 8 * n).
Pow2Minus1Bytes(s, n) ==
    [i \in 1..n |->
        IF i - 1 < s \div ByteBits THEN ByteMax
        ELSE IF i - 1 = s \div ByteBits THEN 2^(s % ByteBits) - 1
        ELSE 0]

\* `as usize` of a u128: the low bytes.
Truncate(v, n) == [i \in 1..n |-> v[i]]

\* a <= b on the low k bytes of two byte tuples, most significant byte first.
RECURSIVE LeqFrom(_, _, _)
LeqFrom(a, b, k) ==
    IF k = 0 THEN TRUE
    ELSE IF a[k] < b[k] THEN TRUE
    ELSE IF a[k] > b[k] THEN FALSE
    ELSE LeqFrom(a, b, k - 1)

Leq(a, b) == LeqFrom(a, b, UsizeBytes)

(***************************************************************************)
(* `1 << s` on a type of `bits` bits: a shift by bits or more panics with  *)
(* overflow checks and uses s masked to the type's width without them.     *)
(***************************************************************************)
ShlAmount(s, bits, build) ==
    IF s < bits
    THEN [panic |-> FALSE, s |-> s]
    ELSE [panic |-> build = "debug", s |-> s % bits]

\* lo without the lower bound of the width class.
Lo_Zero(byt, build) ==
    [panic |-> FALSE, val |-> [i \in 1..UsizeBytes |-> 0]]

\* let lo: usize = if self.byt == 0 { 0 } else { 1 << (self.byt * 8) };
Lo(byt, build) ==
    IF byt = 0
    THEN [panic |-> FALSE, val |-> [i \in 1..UsizeBytes |-> 0]]
    ELSE LET a == ShlAmount(byt * ByteBits, UsizeBytes * ByteBits, build)
         IN  [panic |-> a.panic, val |-> Pow2Bytes(a.s, UsizeBytes)]

\* hi_inc with the shift done in usize instead of u128.
HiInc_UsizeShift(byt, build) ==
    LET a == ShlAmount((byt + 1) * ByteBits, UsizeBytes * ByteBits, build)
    IN  [panic |-> a.panic, val |-> Pow2Minus1Bytes(a.s, UsizeBytes)]

\* let hi_inc: usize = ((1u128 << ((self.byt + 1) * 8) as u128) - 1) as usize;
HiInc(byt, build) ==
    LET a == ShlAmount((byt + 1) * ByteBits, U128Bytes * ByteBits, build)
    IN  [panic |-> a.panic,
         val |-> Truncate(Pow2Minus1Bytes(a.s, U128Bytes), UsizeBytes)]

\* Every usize value.
UsizeValues == [1..UsizeBytes -> 0..ByteMax]

\* self.rng.gen_range(lo..=hi_inc): the values of the range, any of which
\* may be returned; the call panics when the range is empty (lo > hi_inc).
gen_range(lo, hi_inc) == {v \in UsizeValues : Leq(lo, v) /\ Leq(v, hi_inc)}

\* The least usize value v >= lo whose byte at position p is x, if any:
\* lo itself, or lo with byte p raised to x and the bytes below cleared, or
\* the same after a carry into the bytes above p.
LeastWith(lo, p, x) ==
    LET carry(i) == \A j \in (p + 2)..(i - 1) : lo[j] = ByteMax
    IN  IF x = lo[p + 1] THEN [ok |-> TRUE, v |-> lo]
        ELSE IF x > lo[p + 1]
        THEN [ok |-> TRUE,
              v |-> [i \in 1..UsizeBytes |->
                        IF i > p + 1 THEN lo[i]
                        ELSE IF i = p + 1 THEN x ELSE 0]]
        ELSE [ok |-> ~carry(UsizeBytes + 1),
              v |-> [i \in 1..UsizeBytes |->
                        IF i > p + 1
                        THEN IF carry(i) THEN (lo[i] + 1) % (ByteMax + 1)
                             ELSE lo[i]
                        ELSE IF i = p + 1 THEN x ELSE 0]]

\* The bytes that the values of gen_range(lo, hi_inc) have at position p.
ByteValues(lo, hi_inc, p) ==
    {x \in 0..ByteMax :
        LET l == LeastWith(lo, p, x) IN l.ok /\ Leq(l.v, hi_inc)}

(***************************************************************************)
(* What is recorded of the value gen_range returns.  The range has up to   *)
(* 2^64 - 2^56 values, and the value does not enter the iterator's state.  *)
(* Of a call either nothing is recorded, or one byte of the value: any     *)
(* position, and any byte that a value of the range has there, or the      *)
(* whole value and its conversion: every value below 2^8, and for every    *)
(* higher top byte position p a top byte t over each fill of the bytes     *)
(* below it.                                                               *)
(***************************************************************************)
Fills == {"zeros", "ones", "maxes", "even", "odd"}
Fill(f, p) ==
    CASE f = "zeros" -> 0
      [] f = "ones" -> 1
      [] f = "maxes" -> ByteMax
      [] f = "even" -> IF p % 2 = 0 THEN ByteMax ELSE 0
      [] f = "odd" -> IF p % 2 = 1 THEN ByteMax ELSE 0
Sample(p, t, f) ==
    [i \in 1..UsizeBytes |->
        IF i - 1 > p THEN 0 ELSE IF i - 1 = p THEN t ELSE Fill(f, i - 1)]
Samples ==
    {Sample(0, t, "zeros") : t \in 0..ByteMax}
    \cup {Sample(p, t, f) : p \in 1..(UsizeBytes - 1),
                            t \in {1, ByteMax \div 2 + 1, ByteMax},
                            f \in Fills}

\* Bit k of a byte tuple.
BitOf(v, k) == (v[(k \div ByteBits) + 1] \div 2^(k % ByteBits)) % 2

\* The position of the highest set bit of a non-zero usize.
Msb(v) ==
    CHOOSE e \in 0..(UsizeBytes * ByteBits - 1) :
        /\ BitOf(v, e) = 1
        /\ \A k \in (e + 1)..(UsizeBytes * ByteBits - 1) : BitOf(v, k) = 0

(***************************************************************************)
(* `v as f32` / `v as f64` of a usize: the IEEE 754 encoding with m        *)
(* fraction bits, eb exponent bits and the given bias, rounded to nearest, *)
(* ties to even; the result as little-endian bytes.                        *)
(***************************************************************************)
ToFloat(v, m, eb, bias) ==
    IF \A i \in 1..UsizeBytes : v[i] = 0
    THEN [i \in 1..((m + eb + 1) \div ByteBits) |-> 0]
    ELSE LET e == Msb(v)
             raw == [q \in 0..(m - 1) |->
                        IF e - m + q >= 0 THEN BitOf(v, e - m + q) ELSE 0]
             guard == IF e - m - 1 >= 0 THEN BitOf(v, e - m - 1) ELSE 0
             sticky == \E k \in 0..(e - m - 2) : BitOf(v, k) = 1
             up == guard = 1 /\ (sticky \/ raw[0] = 1)
             frac == [q \in 0..(m - 1) |->
                        IF up /\ \A j \in 0..(q - 1) : raw[j] = 1
                        THEN 1 - raw[q]
                        ELSE raw[q]]
             carry == up /\ \A j \in 0..(m - 1) : raw[j] = 1
             ex == e + bias + IF carry THEN 1 ELSE 0
             bit(i) == IF i < m THEN frac[i]
                       ELSE IF i < m + eb THEN (ex \div 2^(i - m)) % 2
                       ELSE 0
             byte(k) == bit(8 * k) + 2 * bit(8 * k + 1) + 4 * bit(8 * k + 2)
                        + 8 * bit(8 * k + 3) + 16 * bit(8 * k + 4)
                        + 32 * bit(8 * k + 5) + 64 * bit(8 * k + 6)
                        + 128 * bit(8 * k + 7)
         IN  [i \in 1..((m + eb + 1) \div ByteBits) |-> byte(i - 1)]

\* ret.as_(): usize to T, as the set of its outcomes.  To a primitive T it
\* is the `as` cast, which always returns: to an integer the bytes are
\* truncated or zero-extended, to a float the number is converted.  To a
\* downstream T it is that crate's impl AsPrimitive<T> for usize: it may
\* panic, and of the value it returns nothing is recorded.
as_(v, t) ==
    CASE t.cast = "float" /\ t.size = 4 ->
            {[panic |-> FALSE, val |-> ToFloat(v, 23, 8, 127)]}
      [] t.cast = "float" /\ t.size = 8 ->
            {[panic |-> FALSE, val |-> ToFloat(v, 52, 11, 1023)]}
      [] t.cast = "downstream" ->
            {[panic |-> p, val |-> <<>>] : p \in BOOLEAN}
      [] OTHER ->
            {[panic |-> FALSE,
              val |-> [i \in 1..SizeOf(t) |->
                          IF i <= UsizeBytes THEN v[i] ELSE 0]]}

\* The cursor wrapped at the size of usize instead of the size of T.
NextByt_UsizeWrap(byt, w) == (byt + 1) % UsizeBytes

\* self.byt = (self.byt + 1) % mem::size_of::<Self::Item>(), for a size
\* that is not zero; the remainder by zero panics in every build.
NextByt(byt, w) == (byt + 1) % w

\* The largest cursor any T allows.
MaxByt == Max(U128Bytes, MaxSize) - 1

\* A call of which nothing but the cursor and the range is recorded.
Unrecorded(b, lo, hi_inc) ==
    [b |-> b, lo |-> lo, hi |-> hi_inc, kind |-> "none",
     ret |-> <<>>, val |-> <<>>, p |-> 0, x |-> 0]
NoDraw == Unrecorded(0, <<>>, <<>>)

\* The records of a call that sampled lo..=hi_inc with cursor b for type t
\* and returned: unrecorded, a whole value with its conversion, or one byte
\* of any value.
\* A value is recorded only of a call that follows an unrecorded one.
Records(b, lo, hi_inc, t, open) ==
    LET none == Unrecorded(b, lo, hi_inc)
    IN  {none}
        \cup (IF open
              THEN UNION {{[none EXCEPT !.kind = "value", !.ret = v,
                                        !.val = o.val] :
                              o \in {r \in as_(v, t) : ~r.panic}} :
                          v \in {s \in Samples : s \in gen_range(lo, hi_inc)}}
                   \cup UNION {{[none EXCEPT !.kind = "byte", !.p = p,
                                             !.x = x] :
                                   x \in ByteValues(lo, hi_inc, p)} :
                               p \in 0..(UsizeBytes - 1)}
              ELSE {})

VARIABLES
    pc,      \* "start", "RngItr", "RndEqlBytItr" or "panic"
    build,   \* overflow checks on ("debug") or off ("release")
    called,  \* the constructor that was called, "none" before
    seg,     \* rngs' argument seg
    lim,     \* rngs' argument lim
    itr,     \* the RngItr
    hist,    \* what the calls of RngItr::next returned, in order
    err,     \* why the program panicked, "none" otherwise
    T,       \* the generator's type parameter, NoType before
    byt,     \* RndEqlBytItr.byt
    cnt,     \* draws taken so far
    draw,    \* the last draw: cursor, range, and what is recorded of the value
    drawn    \* how many draws each cursor value has had

vars == <<pc, build, called, seg, lim, itr, hist, err, T, byt, cnt, draw, drawn>>

\* mem::size_of::<Self::Item>()
W == SizeOf(T)
rngVars == <<seg, lim, itr, hist>>
rndVars == <<T, byt, cnt, draw, drawn>>

Init ==
    /\ pc = "start"
    /\ build \in Builds
    /\ called = "none"
    /\ seg = 0
    /\ lim = 0
    /\ itr = NoItr
    /\ hist = <<>>
    /\ err = "none"
    /\ T = NoType
    /\ byt = 0
    /\ cnt = 0
    /\ draw = NoDraw
    /\ drawn = [b \in 0..MaxByt |-> 0]

\* A call rngs(s, l).
CallRngs ==
    /\ pc = "start"
    /\ \E s \in Usize, l \in Usize :
         LET r == rngs(s, l)
         IN  /\ called' = "rngs"
             /\ seg' = s
             /\ lim' = l
             /\ itr' = r.itr
             /\ pc' = IF r.panic THEN "panic" ELSE "RngItr"
             /\ err' = IF r.panic THEN "div_zero" ELSE "none"
    /\ UNCHANGED <<build, hist, rndVars>>

\* A call next() on the RngItr.
RngNext ==
    /\ pc = "RngItr"
    /\ Len(hist) < MaxCalls
    /\ Len(SelectSeq(hist, LAMBDA h : h.tag = "None")) < MaxNone
    /\ LET r == RngItr_next(itr, build)
       IN  /\ itr' = r.self
           /\ pc' = IF r.panic THEN "panic" ELSE "RngItr"
           /\ err' = IF r.panic THEN "add_overflow" ELSE "none"
           /\ hist' = IF r.panic THEN hist ELSE Append(hist, r.ret)
    /\ UNCHANGED <<build, called, seg, lim, rndVars>>

\* A call rnds_eql_byt::<T>().
CallRndsEqlByt ==
    /\ pc = "start"
    /\ T' \in Types
    /\ called' = "rnds_eql_byt"
    /\ byt' = 0
    /\ pc' = "RndEqlBytItr"
    /\ UNCHANGED <<build, err, cnt, draw, drawn, rngVars>>

\* A call next() on the RndEqlBytItr.
RndNext ==
    /\ pc = "RndEqlBytItr"
    /\ cnt < MaxDraws
    /\ LET lo == Lo(byt, build)
           hi_inc == HiInc(byt, build)
       IN  IF lo.panic \/ hi_inc.panic
           THEN /\ pc' = "panic"
                /\ err' = "shl_overflow"
                /\ UNCHANGED <<byt, cnt, draw, drawn>>
           ELSE IF ~Leq(lo.val, hi_inc.val)
           THEN /\ pc' = "panic"
                /\ err' = "empty_range"
                /\ UNCHANGED <<byt, cnt, draw, drawn>>
           ELSE IF W = 0
           THEN /\ pc' = "panic"
                /\ err' = "rem_zero"
                /\ UNCHANGED <<byt, cnt, draw, drawn>>
           ELSE /\ byt' = NextByt(byt, W)
                /\ \/ /\ draw' \in Records(byt, lo.val, hi_inc.val, T,
                                           draw.kind = "none")
                      /\ cnt' = cnt + 1
                      /\ drawn' = [drawn EXCEPT ![byt] = @ + 1]
                      /\ UNCHANGED <<pc, err>>
                   \/ /\ \E o \in as_(lo.val, T) : o.panic
                      /\ pc' = "panic"
                      /\ err' = "as_panic"
                      /\ UNCHANGED <<cnt, draw, drawn>>
    /\ UNCHANGED <<build, called, T, rngVars>>

Next == CallRngs \/ RngNext \/ CallRndsEqlByt \/ RndNext

Spec == Init /\ [][Next]_vars
FairSpec == Spec /\ WF_vars(RngNext)

(***************************************************************************)
(* The range splitter's properties.                                        *)
(***************************************************************************)
IsSome(h) == h.tag = "Some"
IsNone(h) == h.tag = "None"
\* The intervals produced so far, in iteration order.
Out == SelectSeq(hist, IsSome)
\* next() has returned None.
Ended == \E i \in 1..Len(hist) : IsNone(hist[i])
RngLen(r) == r.end - r.start
RECURSIVE SumLen(_)
SumLen(q) == IF q = <<>> THEN 0 ELSE RngLen(Head(q)) + SumLen(Tail(q))
\* rngs was called with seg >= 1.
InRngs == called = "rngs" /\ seg >= 1

\* C1: for seg >= 1 the intervals produced are contiguous and do not
\* overlap: the first starts at 0, each later one starts at the previous
\* one's end, and once the iteration has ended the last one ends at lim, the
\* lengths sum to lim and every element of [0, lim) lies in exactly one.
C1_Contiguous ==
    InRngs =>
        /\ \A i \in 1..Len(Out) : Out[i].start <= Out[i].end
        /\ Len(Out) >= 1 => Out[1].start = 0
        /\ \A i \in 2..Len(Out) : Out[i].start = Out[i - 1].end
        /\ Ended =>
              /\ Len(Out) >= 1
              /\ Out[Len(Out)].end = lim
              /\ SumLen(Out) = lim
              /\ \A x \in 0..(lim - 1) :
                    Cardinality({i \in 1..Len(Out) :
                        Out[i].start <= x /\ x < Out[i].end}) = 1
C1_Witness ==
    InRngs /\ Ended /\ Len(Out) >= 3 /\ lim % seg # 0 /\ lim = USIZE_MAX

\* C2 as stated: for seg >= 1 the iteration produces exactly seg intervals
\* before it ends, also when seg > lim.
C2_ExactlySeg == InRngs /\ Ended => Len(Out) = seg
\* C2 amended: never more than seg intervals are produced; when seg <= lim
\* exactly seg are produced before the end; when seg > lim only max(lim, 1)
\* are, and no empty intervals pad the sequence up to seg.
C2_SegOrFewer ==
    InRngs =>
        /\ Len(Out) <= seg
        /\ Ended /\ seg <= lim => Len(Out) = seg
        /\ Ended /\ seg > lim => Len(Out) = Max(lim, 1)
C2_Witness == InRngs /\ Ended /\ seg > lim /\ lim >= 2 /\ Len(Out) = lim

\* C3: every interval has length base or base + 1 with base = lim / seg,
\* the intervals of length base + 1 come before those of length base, and
\* at the end there are lim % seg of them; rngs(2, 7) = [0..4, 4..7] and
\* rngs(4, 10) = [0..3, 3..6, 6..8, 8..10].
C3_FrontLoaded ==
    InRngs =>
        LET base == lim \div seg
        IN  /\ \A i \in 1..Len(Out) : RngLen(Out[i]) \in {base, base + 1}
            /\ \A i, j \in 1..Len(Out) :
                  i < j => RngLen(Out[i]) >= RngLen(Out[j])
            /\ Ended =>
                  Cardinality({i \in 1..Len(Out) : RngLen(Out[i]) = base + 1})
                      = lim % seg
            /\ Ended /\ seg = 2 /\ lim = 7 => Out = <<Some(0, 4), Some(4, 7)>>
            /\ Ended /\ seg = 4 /\ lim = 10 =>
                  Out = <<Some(0, 3), Some(3, 6), Some(6, 8), Some(8, 10)>>
C3_Witness ==
    /\ InRngs /\ Ended /\ seg = 4 /\ lim = 10
    /\ RngLen(Out[2]) = 3 /\ RngLen(Out[3]) = 2

\* C4 as stated: rngs(seg, 0) yields the empty sequence, the first next()
\* returns None.
C4_EmptyForZero ==
    InRngs /\ lim = 0 /\ Len(hist) >= 1 => IsNone(hist[1]) /\ Out = <<>>
\* C4 amended: rngs(seg, 0) yields exactly one interval, the empty 0..0: the
\* first next() returns Some(0..0) and every later call returns None.
C4_OneEmptyForZero ==
    InRngs /\ lim = 0 =>
        /\ Len(hist) >= 1 => hist[1] = Some(0, 0)
        /\ \A i \in 2..Len(hist) : IsNone(hist[i])
C4_Witness ==
    InRngs /\ seg >= 2 /\ lim = 0 /\ Len(hist) = 2 /\ IsNone(hist[2])

\* C5: rngs with seg = 0 fails at the call: the program panics there, no
\* iterator is created and no interval is ever produced.
C5_ZeroSegFails ==
    called = "rngs" /\ seg = 0 =>
        /\ pc = "panic"
        /\ err = "div_zero"
        /\ itr = NoItr
        /\ hist = <<>>
C5_Witness == called = "rngs" /\ seg = 0 /\ lim > 0 /\ pc = "panic"

\* C6: for seg >= 1 and lim up to usize::MAX no call panics, a call returns
\* None exactly when an earlier call returned an interval ending at lim (so
\* no interval follows such an interval and no None precedes it), and
\* repeated calls eventually return None.
C6_Stops ==
    InRngs =>
        /\ pc = "RngItr"
        /\ \A j \in 1..Len(hist) :
              IsNone(hist[j]) <=>
                  \E i \in 1..(j - 1) : IsSome(hist[i]) /\ hist[i].end = lim
C6_Terminates == [](C6_Stops) /\ (InRngs ~> Ended)
C6_Witness ==
    /\ InRngs /\ seg >= 2 /\ lim = USIZE_MAX /\ Ended
    /\ IsSome(hist[Len(hist) - 1]) /\ hist[Len(hist) - 1].end = lim
(***************************************************************************)
(* The generator's properties.                                             *)
(***************************************************************************)
\* rnds_eql_byt::<T>() was called with T one of u8, u16, u32, u64.
InRnds == called = "rnds_eql_byt" /\ T \in Unsigned /\ W \in {1, 2, 4, 8}
\* rnds_eql_byt::<T>() was called with a primitive T of 1, 2, 4 or 8 bytes.
InRndsW == called = "rnds_eql_byt" /\ T \in Primitive /\ W \in {1, 2, 4, 8}
\* low(b) and high(b) of the width class b, as byte tuples.
SpecLow(b) == [i \in 1..UsizeBytes |-> IF b > 0 /\ i = b + 1 THEN 1 ELSE 0]
SpecHigh(b) == [i \in 1..UsizeBytes |-> IF i <= b + 1 THEN ByteMax ELSE 0]

\* C7 as stated: the i-th value returned (i = cnt - 1) has every byte at a
\* position below (i mod W) + 1 non-zero and every byte at or above it zero.
C7_AllLowBytesNonZero ==
    InRnds /\ cnt >= 1 =>
        LET n == ((cnt - 1) % W) + 1
        IN  /\ draw.kind = "value" =>
                  \A p \in 0..(W - 1) :
                      /\ p < n => draw.val[p + 1] # 0
                      /\ p >= n => draw.val[p + 1] = 0
            /\ draw.kind = "byte" /\ draw.p < W =>
                  /\ draw.p < n => draw.x # 0
                  /\ draw.p >= n => draw.x = 0

\* C8: a call made with cursor b samples exactly low(b)..=high(b) and
\* returns v with low(b) <= v <= high(b): every byte above position b is
\* zero, byte b is non-zero when b > 0, and the cast to T drops nothing.
C8_InWidthClass ==
    InRnds /\ cnt >= 1 =>
        LET b == draw.b
        IN  /\ b < W
            /\ draw.lo = SpecLow(b)
            /\ draw.hi = SpecHigh(b)
            /\ draw.kind = "value" =>
                  /\ Leq(SpecLow(b), draw.ret) /\ Leq(draw.ret, SpecHigh(b))
                  /\ \A p \in 0..(UsizeBytes - 1) :
                        p > b => draw.ret[p + 1] = 0
                  /\ b > 0 => draw.ret[b + 1] # 0
                  /\ Len(draw.val) = W
                  /\ \A i \in 1..UsizeBytes :
                        draw.ret[i] = IF i <= W THEN draw.val[i] ELSE 0
            /\ draw.kind = "byte" =>
                  /\ draw.p > b => draw.x = 0
                  /\ draw.p = b /\ b > 0 => draw.x # 0
                  /\ draw.p >= W => draw.x = 0
C8_Witness ==
    /\ InRnds /\ W = 4 /\ cnt >= 1 /\ draw.b = 3
    /\ \/ draw.kind = "value" /\ draw.val = <<0, ByteMax, 0, 1>>
       \/ draw.kind = "byte" /\ draw.p = 3 /\ draw.x = 210

\* C9: for a primitive T the cursor is 0 at creation, stays in [0, W), every
\* call replaces it by (byt + 1) mod W, so that the i-th draw uses cursor
\* i mod W and after k * W draws every width class has been drawn exactly
\* k times.
C9_CursorCycles ==
    called = "rnds_eql_byt" /\ T \in Primitive =>
        /\ byt \in 0..(W - 1)
        /\ byt = cnt % W
        /\ cnt >= 1 => draw.b = (cnt - 1) % W
        /\ \A b \in 0..MaxByt :
              drawn[b] = Cardinality({i \in 0..(cnt - 1) : i % W = b})
        /\ cnt % W = 0 =>
              \A b \in 0..(W - 1) : drawn[b] = cnt \div W
C9_Witness ==
    /\ called = "rnds_eql_byt" /\ T \in Primitive
    /\ W = 4 /\ cnt = 8 /\ drawn[3] = 2 /\ byt = 0

\* C10: for a primitive T with W in {1, 2, 4, 8} no call of next() fails,
\* after any number of earlier calls: neither shift overflows, lo <= hi_inc
\* and the sampled range is not empty, the remainder has a divisor that is
\* not zero and the conversion returns, so the call returns a value.
C10_NeverFails ==
    InRndsW =>
        /\ pc = "RndEqlBytItr"
        /\ err = "none"
        /\ ~Lo(byt, build).panic
        /\ ~HiInc(byt, build).panic
        /\ Leq(Lo(byt, build).val, HiInc(byt, build).val)
        /\ Lo(byt, build).val
              \in gen_range(Lo(byt, build).val, HiInc(byt, build).val)
        /\ W # 0
        /\ \A o \in as_(Lo(byt, build).val, T) : ~o.panic
C10_Witness ==
    /\ InRndsW /\ T \in Unsigned /\ W = 8
    /\ cnt >= 16 /\ byt = 0 /\ build = "debug"
\* C12 as stated: a generator whose width is not 1, 2, 4 or 8 bytes is
\* rejected before any draw, so no execution has next() fail at runtime with
\* such a width.
C12_NoRuntimeFailure ==
    ~(called = "rnds_eql_byt" /\ W \notin {1, 2, 4, 8} /\ pc = "panic")
\* C13: the number of intervals rngs(seg, lim) produces before it ends is
\* min(seg, max(lim, 1)): seg when 1 <= seg <= lim, lim when seg > lim >= 1,
\* and one interval, 0..0, when lim = 0.
C13_Count ==
    InRngs /\ Ended =>
        /\ Len(Out) = Min(seg, Max(lim, 1))
        /\ lim = 0 => Out = <<Some(0, 0)>>
C13_Witness ==
    InRngs /\ Ended /\ seg = USIZE_MAX /\ lim = 3 /\ Len(Out) = 3

\* The adj a call of next() on the iterator would add.
Adj == IF itr.stp_adj > 0 THEN 1 ELSE 0
\* The iterator exists and is not exhausted.
Live == pc = "RngItr" /\ itr.idx # USIZE_MAX

\* C14: whenever next() is called on an iterator that is not exhausted,
\* idx + stp + adj <= lim, so the sum does not overflow and the clamp
\* .min(lim) leaves it as it is; idx is usize::MAX only as the sentinel set
\* after an interval ending at lim, never as the start of an interval.
C14_SumWithinLim ==
    InRngs =>
        /\ err # "add_overflow"
        /\ Live =>
              /\ itr.idx + itr.stp + Adj <= itr.lim
              /\ itr.idx + itr.stp + Adj <= USIZE_MAX
              /\ Min(itr.idx + itr.stp + Adj, itr.lim) = itr.idx + itr.stp + Adj
              /\ itr.idx < itr.lim \/ (itr.lim = 0 /\ itr.idx = 0)
        /\ (pc = "RngItr" /\ itr.idx = USIZE_MAX) <=>
              (Len(Out) >= 1 /\ Out[Len(Out)].end = lim)
        /\ \A i \in 1..Len(Out) : Out[i].start # USIZE_MAX
C14_Witness ==
    /\ InRngs /\ Live /\ lim = USIZE_MAX /\ seg = 2 /\ Len(Out) = 1
    /\ itr.idx + itr.stp + Adj = USIZE_MAX

\* C15: for lim >= 1 every interval produced is non-empty (start < end),
\* also when seg > lim; an interval is empty only when lim = 0.
C15_NonEmpty ==
    InRngs =>
        \A i \in 1..Len(Out) :
            /\ lim >= 1 => Out[i].start < Out[i].end
            /\ Out[i].start = Out[i].end => lim = 0
C15_Witness ==
    /\ InRngs /\ Ended /\ seg > lim /\ lim >= 2
    /\ \A i \in 1..Len(Out) : RngLen(Out[i]) = 1

\* C16: once next() has returned None every later call returns None and
\* leaves idx, stp, lim and stp_adj as they are; and no call of next()
\* changes stp or lim or increases stp_adj.
C16_Step ==
    (InRngs /\ pc = "RngItr") =>
        /\ itr'.stp = itr.stp
        /\ itr'.lim = itr.lim
        /\ itr'.stp_adj <= itr.stp_adj
        /\ Ended =>
              /\ itr' = itr
              /\ hist' # hist =>
                    (hist' = Append(hist, None) /\ pc' = "RngItr")
C16_Fused == [][C16_Step]_vars
C16_Witness ==
    /\ InRngs /\ Len(Out) >= 2 /\ lim % seg # 0
    /\ Len(hist) = Len(Out) + 2
    /\ IsNone(hist[Len(hist)]) /\ IsNone(hist[Len(hist) - 1])
====
